---- MODULE Spec2Model ----
(***************************************************************************)
(* Model of src/cod_exp.py: exp_curse_of_dimensionality(save_path, show)   *)
(* and the __main__ entry point.                                           *)
(*                                                                         *)
(* One call is modelled from the call site to its return or to the         *)
(* exception that leaves it.  pc is the position in the function body.     *)
(*                                                                         *)
(* Numbers.  Distances are naturals counted in units of 0.5e-12, so that   *)
(* eps = 1e-12 is Eps = 2 units and distances below, at and above eps all  *)
(* exist.  A ratio is the exact quotient num/den kept in lowest terms.     *)
(* The distances of the program lie in [0, sqrt(1536)), where the spacing  *)
(* of doubles is below 1e-14, so min_dist + eps never rounds back to       *)
(* min_dist and the order of a quotient against 1 is the order of its      *)
(* numerator against its denominator.                                      *)
(*                                                                         *)
(* Sample sets.  np.random.rand(1000, dim) is modelled by NumVectors       *)
(* points that lie on one axis-parallel line of the unit cube; a point is  *)
(* its coordinate along that line.  The Euclidean distance of two such     *)
(* points is the absolute difference of the coordinates, in every dim.     *)
(***************************************************************************)
EXTENDS Integers, Sequences, FiniteSets, TLC

VARIABLES pc, save_path, show, noArgs, idx, vectors,
          min_dists, max_dists, ratios, drawn,
          rcStyle, rcStyle0, fig, chart, files, savefigCalls, showCalls,
          stdout, trace, exc, failedAt, result

vars == <<pc, save_path, show, noArgs, idx, vectors,
          min_dists, max_dists, ratios, drawn,
          rcStyle, rcStyle0, fig, chart, files, savefigCalls, showCalls,
          stdout, trace, exc, failedAt, result>>

(* ------------------------------ bounds -------------------------------- *)

\* points per sample set in the pipeline (stands for the 1000 of line 33)
NumVectors == 2
\* largest coordinate of a sampled point in the pipeline, in units
MaxCoord == 1
\* points per sample set when the reducer is exercised on its own
ReducerVectors == 3
\* largest coordinate when the reducer is exercised on its own, in units
ReducerCoord == 3

(* ------------------------- program constants -------------------------- *)

None == "None"

dimensions == <<2, 3, 192, 384, 768, 1536>>

\* eps = 1e-12, in units of 0.5e-12
Eps == 2

SeabornStyle == "seaborn-v0_8"

\* the styles the process may have active when the call is made
Styles == {"default", SeabornStyle}

\* defaults of the signature: save_path = None, show = True
DefaultSavePath == None

\* a signature whose show defaults to False
DefaultShowOff == FALSE

DefaultShow == TRUE

\* the arguments a caller passes for save_path
SavePaths == {None, "", "plot.png"}

(* --------------------------- pure functions --------------------------- *)

Abs(x) == IF x < 0 THEN -x ELSE x

RECURSIVE GCD(_, _)
GCD(a, b) == IF b = 0 THEN a ELSE GCD(b, a % b)

\* a / b for floats a >= 0, b > 0: the exact quotient in lowest terms
Div(a, b) ==
  LET g == GCD(a, b)
  IN IF g = 0 THEN [num |-> 0, den |-> 0]
     ELSE [num |-> a \div g, den |-> b \div g]

\* the sample sets rand can return: n points with coordinates 0..g
SampleSets(n, g) == [1..n -> 0..g]

\* the index pairs of the condensed distance vector, in pdist's order
PairIndex(n) ==
  LET Row(i) == [k \in 1..(n - i) |-> <<i, i + k>>]
      RECURSIVE Rows(_)
      Rows(i) == IF i >= n THEN <<>> ELSE Row(i) \o Rows(i + 1)
  IN Rows(1)

\* scipy.spatial.distance.pdist: the Euclidean distance of every pair i < j
pdist(v) ==
  LET p == PairIndex(Len(v))
  IN [k \in 1..Len(p) |-> Abs(v[p[k][1]] - v[p[k][2]])]

SeqMin(s) == CHOOSE m \in {s[i] : i \in 1..Len(s)} :
               \A i \in 1..Len(s) : m <= s[i]

SeqMax(s) == CHOOSE m \in {s[i] : i \in 1..Len(s)} :
               \A i \in 1..Len(s) : m >= s[i]

\* "if save_path is not None:" in place of "if save_path:"
TruthyNotNone(p) == p # None

\* the truth value of save_path in "if save_path:"
Truthy(p) == p # None /\ p # ""

\* a loop that stops one dimension short
LoopDoneEarly == idx > Len(dimensions) - 1

\* "for dim in dimensions" is exhausted
LoopDone == idx > Len(dimensions)

(* ------------------------------- state -------------------------------- *)

Init ==
  /\ pc = "idle"
  /\ save_path = None
  /\ show = FALSE
  /\ noArgs = FALSE
  /\ idx = 0
  /\ vectors = <<>>
  /\ min_dists = <<>>
  /\ max_dists = <<>>
  /\ ratios = <<>>
  /\ drawn = <<>>
  /\ rcStyle \in Styles
  /\ rcStyle0 = rcStyle
  /\ fig = "none"
  /\ chart = <<>>
  /\ files = {}
  /\ savefigCalls = <<>>
  /\ showCalls = 0
  /\ stdout = <<>>
  /\ trace = <<>>
  /\ exc = "none"
  /\ failedAt = "none"
  /\ result = "none"

\* an exception that is caught and rendering goes on with what there is
PropagateSwallowed(e, at) ==
  /\ pc' = "style"
  /\ exc' = e
  /\ failedAt' = at

\* an exception raised at position at leaves the function: the body has no
\* try, except, finally or with, so nothing runs after the raise
Propagate(e, at) ==
  /\ pc' = "raised"
  /\ exc' = e
  /\ failedAt' = at

NoFailure == UNCHANGED <<exc, failedAt>>

Args == <<save_path, show, noArgs>>
Loop == <<idx, vectors, min_dists, max_dists, ratios, drawn>>
Plot == <<rcStyle, fig, chart, files, savefigCalls, showCalls>>

\* lines 26-29: the locals at entry
Enter(sp, sh, na) ==
  /\ pc = "idle"
  /\ pc' = "sample"
  /\ save_path' = sp
  /\ show' = sh
  /\ noArgs' = na
  /\ idx' = 1
  /\ UNCHANGED <<vectors, min_dists, max_dists, ratios, drawn>>
  /\ UNCHANGED <<Plot, rcStyle0, stdout, trace, result>>
  /\ NoFailure

\* lines 91-92: exp_curse_of_dimensionality()
CallDefault == Enter(DefaultSavePath, DefaultShow, TRUE)

\* a caller that passes both arguments
CallWithArgs == \E sp \in SavePaths, sh \in BOOLEAN : Enter(sp, sh, FALSE)

(* ------------------- sampler and distance reducer --------------------- *)

\* line 33: vectors = np.random.rand(n, dim), coordinates in 0..g
SampleFrom(n, g) ==
  /\ pc = "sample"
  /\ ~LoopDone
  /\ vectors' \in SampleSets(n, g)
  /\ pc' = "reduce"
  /\ trace' = Append(trace, <<"sample", dimensions[idx]>>)
  /\ UNCHANGED <<idx, min_dists, max_dists, ratios, drawn>>
  /\ UNCHANGED <<Args, Plot, rcStyle0, stdout, result>>
  /\ NoFailure

Sample == SampleFrom(NumVectors, MaxCoord)

\* line 33: the allocation of the sample set fails
SampleFails ==
  /\ pc = "sample"
  /\ ~LoopDone
  /\ Propagate("MemoryError", "sample")
  /\ UNCHANGED <<Args, Loop, Plot, rcStyle0, stdout, trace, result>>

\* lines 36-40: dists = pdist(vectors); min, max; the two appends.
\* vectors is not read after line 36 and is rebound by the next pass: the
\* model drops it here.
Reduce ==
  /\ pc = "reduce"
  /\ LET dists == pdist(vectors)
     IN /\ min_dists' = Append(min_dists, SeqMin(dists))
        /\ max_dists' = Append(max_dists, SeqMax(dists))
        /\ drawn' = Append(drawn, [dim |-> dimensions[idx], dists |-> dists])
  /\ vectors' = <<>>
  /\ pc' = "ratio"
  /\ trace' = Append(trace, <<"reduce", dimensions[idx]>>)
  /\ UNCHANGED <<idx, ratios>>
  /\ UNCHANGED <<Args, Plot, rcStyle0, stdout, result>>
  /\ NoFailure

\* line 36: pdist cannot allocate the condensed distance vector
ReduceFails ==
  /\ pc = "reduce"
  /\ Propagate("MemoryError", "reduce")
  /\ UNCHANGED <<Args, Loop, Plot, rcStyle0, stdout, trace, result>>

\* a divisor without the guard
DivisorNoEps(min_dist) == min_dist

\* line 44: the divisor of the ratio
Divisor(min_dist) == min_dist + Eps

\* lines 43-45: ratio = max_dist / (min_dist + eps); ratios.append(ratio)
\* a float division by 0.0 raises ZeroDivisionError
ComputeRatio ==
  /\ pc = "ratio"
  /\ LET min_dist == min_dists[Len(min_dists)]
         max_dist == max_dists[Len(max_dists)]
     IN IF Divisor(min_dist) = 0
        THEN /\ Propagate("ZeroDivisionError", "ratio")
             /\ UNCHANGED <<ratios, trace>>
        ELSE /\ ratios' = Append(ratios, Div(max_dist, Divisor(min_dist)))
             /\ pc' = "print"
             /\ trace' = Append(trace, <<"ratio", dimensions[idx]>>)
             /\ NoFailure
  /\ UNCHANGED <<idx, vectors, min_dists, max_dists, drawn>>
  /\ UNCHANGED <<Args, Plot, rcStyle0, stdout, result>>

\* a loop that skips every second dimension
NextIndexSkip(i) == i + 2

\* the loop variable after one pass of the body
NextIndex(i) == i + 1

\* line 47: the console line of the dimension, then the next pass
PrintLine ==
  /\ pc = "print"
  /\ stdout' = Append(stdout, [line |-> "Dimension", dim |-> dimensions[idx],
                               min |-> min_dists[Len(min_dists)],
                               max |-> max_dists[Len(max_dists)],
                               ratio |-> ratios[Len(ratios)]])
  /\ trace' = Append(trace, <<"print", dimensions[idx]>>)
  /\ idx' = NextIndex(idx)
  /\ pc' = "sample"
  /\ UNCHANGED <<vectors, min_dists, max_dists, ratios, drawn>>
  /\ UNCHANGED <<Args, Plot, rcStyle0, result>>
  /\ NoFailure

\* line 31: the loop is exhausted, control reaches line 50
LoopExit ==
  /\ pc = "sample"
  /\ LoopDone
  /\ pc' = "style"
  /\ UNCHANGED <<Args, Loop, Plot, rcStyle0, stdout, trace, result>>
  /\ NoFailure

(* ------------------------------ renderer ------------------------------ *)

\* what plt.style.use(name) leaves in the process-wide rcParams
StyleAfterUse(old, name) == name

\* line 50: plt.style.use("seaborn-v0_8")
UseStyle ==
  /\ pc = "style"
  /\ rcStyle' = StyleAfterUse(rcStyle, SeabornStyle)
  /\ pc' = "subplots"
  /\ trace' = Append(trace, <<"style", 0>>)
  /\ UNCHANGED <<fig, chart, files, savefigCalls, showCalls>>
  /\ UNCHANGED <<Args, Loop, rcStyle0, stdout, result>>
  /\ NoFailure

\* line 50: the style sheet is not known to the installed matplotlib
UseStyleFails ==
  /\ pc = "style"
  /\ Propagate("OSError", "style")
  /\ UNCHANGED <<Args, Loop, Plot, rcStyle0, stdout, trace, result>>

\* line 51: fig, ax = plt.subplots(...)
Subplots ==
  /\ pc = "subplots"
  /\ fig' = "open"
  /\ pc' = "draw"
  /\ trace' = Append(trace, <<"figure", 0>>)
  /\ UNCHANGED <<rcStyle, chart, files, savefigCalls, showCalls>>
  /\ UNCHANGED <<Args, Loop, rcStyle0, stdout, result>>
  /\ NoFailure

\* line 51: no figure can be created
SubplotsFails ==
  /\ pc = "subplots"
  /\ Propagate("RuntimeError", "subplots")
  /\ UNCHANGED <<Args, Loop, Plot, rcStyle0, stdout, trace, result>>

\* lines 54-79: one bar and one annotation per dimension, tight_layout
Draw ==
  /\ pc = "draw"
  /\ chart' = [i \in 1..Len(dimensions) |->
                 [tick |-> dimensions[i], height |-> ratios[i]]]
  /\ pc' = "save"
  /\ trace' = Append(trace, <<"draw", 0>>)
  /\ UNCHANGED <<rcStyle, fig, files, savefigCalls, showCalls>>
  /\ UNCHANGED <<Args, Loop, rcStyle0, stdout, result>>
  /\ NoFailure

\* lines 54-79: an artist or the layout raises
DrawFails ==
  /\ pc = "draw"
  /\ Propagate("ValueError", "draw")
  /\ UNCHANGED <<Args, Loop, Plot, rcStyle0, stdout, trace, result>>

\* line 81: save_path is None or empty, lines 82-83 are skipped
SaveSkip ==
  /\ pc = "save"
  /\ ~Truthy(save_path)
  /\ pc' = "show"
  /\ UNCHANGED <<Args, Loop, Plot, rcStyle0, stdout, trace, result>>
  /\ NoFailure

\* lines 82-83: fig.savefig(save_path, ...) writes the file, then the print
SaveOk ==
  /\ pc = "save"
  /\ Truthy(save_path)
  /\ savefigCalls' = Append(savefigCalls, save_path)
  /\ files' = files \cup {save_path}
  /\ stdout' = Append(stdout, [line |-> "Saved plot to", path |-> save_path])
  /\ trace' = trace \o <<<<"write", 0>>, <<"saved_line", 0>>>>
  /\ pc' = "show"
  /\ UNCHANGED <<rcStyle, fig, chart, showCalls>>
  /\ UNCHANGED <<Args, Loop, rcStyle0, result>>
  /\ NoFailure

\* a failed savefig that is caught, after which the call goes on to show
SaveFailsSwallowed ==
  /\ pc = "save"
  /\ Truthy(save_path)
  /\ savefigCalls' = Append(savefigCalls, save_path)
  /\ pc' = "show"
  /\ UNCHANGED <<rcStyle, fig, chart, files, showCalls>>
  /\ UNCHANGED <<Args, Loop, rcStyle0, stdout, trace, result>>
  /\ NoFailure

\* line 82: fig.savefig raises (unwritable directory, permissions)
SaveFails ==
  /\ pc = "save"
  /\ Truthy(save_path)
  /\ savefigCalls' = Append(savefigCalls, save_path)
  /\ Propagate("OSError", "save")
  /\ UNCHANGED <<rcStyle, fig, chart, files, showCalls>>
  /\ UNCHANGED <<Args, Loop, rcStyle0, stdout, trace, result>>

\* line 85: show is false, line 86 is skipped
ShowSkip ==
  /\ pc = "show"
  /\ ~show
  /\ pc' = "close"
  /\ UNCHANGED <<Args, Loop, Plot, rcStyle0, stdout, trace, result>>
  /\ NoFailure

\* line 86: plt.show() is entered; it blocks until the window is dismissed
ShowCall ==
  /\ pc = "show"
  /\ show
  /\ showCalls' = showCalls + 1
  /\ trace' = Append(trace, <<"show", 0>>)
  /\ pc' = "showing"
  /\ UNCHANGED <<rcStyle, fig, chart, files, savefigCalls>>
  /\ UNCHANGED <<Args, Loop, rcStyle0, stdout, result>>
  /\ NoFailure

\* line 86: the window is dismissed and plt.show() returns
ShowReturn ==
  /\ pc = "showing"
  /\ pc' = "close"
  /\ UNCHANGED <<Args, Loop, Plot, rcStyle0, stdout, trace, result>>
  /\ NoFailure

\* line 86: plt.show() raises (no display)
ShowFails ==
  /\ pc = "showing"
  /\ Propagate("RuntimeError", "show")
  /\ UNCHANGED <<Args, Loop, Plot, rcStyle0, stdout, trace, result>>

\* line 88: plt.close(fig)
Close ==
  /\ pc = "close"
  /\ fig' = "closed"
  /\ trace' = Append(trace, <<"close", 0>>)
  /\ pc' = "return"
  /\ UNCHANGED <<rcStyle, chart, files, savefigCalls, showCalls>>
  /\ UNCHANGED <<Args, Loop, rcStyle0, stdout, result>>
  /\ NoFailure

\* line 89: return fig, ax
Return ==
  /\ pc = "return"
  /\ result' = <<"fig", "ax">>
  /\ pc' = "returned"
  /\ UNCHANGED <<Args, Loop, Plot, rcStyle0, stdout, trace>>
  /\ NoFailure

Next ==
  \/ CallDefault
  \/ CallWithArgs
  \/ Sample
  \/ SampleFails
  \/ Reduce
  \/ ReduceFails
  \/ ComputeRatio
  \/ PrintLine
  \/ LoopExit
  \/ UseStyle
  \/ UseStyleFails
  \/ Subplots
  \/ SubplotsFails
  \/ Draw
  \/ DrawFails
  \/ SaveSkip
  \/ SaveOk
  \/ SaveFails
  \/ ShowSkip
  \/ ShowCall
  \/ ShowReturn
  \/ ShowFails
  \/ Close
  \/ Return

Spec == Init /\ [][Next]_vars

(* ------------------ the distance reducer on its own ------------------- *)

\* the four steps of one pass of the loop body, in order
StepKinds == <<"sample", "reduce", "ratio", "print">>

\* the state of the call in pass k of the loop, right after line 33 has
\* drawn the sample set v, when every earlier pass drew the sample set p
InPass(k, p, v) ==
  LET d == pdist(p)
      r == Div(SeqMax(d), Divisor(SeqMin(d)))
  IN /\ pc = "reduce"
     /\ idx = k
     /\ vectors = v
     /\ min_dists = [i \in 1..(k - 1) |-> SeqMin(d)]
     /\ max_dists = [i \in 1..(k - 1) |-> SeqMax(d)]
     /\ ratios = [i \in 1..(k - 1) |-> r]
     /\ drawn = [i \in 1..(k - 1) |-> [dim |-> dimensions[i], dists |-> d]]
     /\ stdout = [i \in 1..(k - 1) |->
                    [line |-> "Dimension", dim |-> dimensions[i],
                     min |-> SeqMin(d), max |-> SeqMax(d), ratio |-> r]]
     /\ trace = [j \in 1..(4 * (k - 1) + 1) |->
                   <<StepKinds[((j - 1) % 4) + 1],
                     dimensions[((j - 1) \div 4) + 1]>>]

InitRatio ==
  /\ \E k \in 1..Len(dimensions) :
       \E p \in SampleSets(NumVectors, MaxCoord) :
         \E n \in 2..ReducerVectors :
           \E v \in SampleSets(n, ReducerCoord) : InPass(k, p, v)
  /\ save_path = DefaultSavePath
  /\ show = DefaultShow
  /\ noArgs = TRUE
  /\ rcStyle \in Styles
  /\ rcStyle0 = rcStyle
  /\ fig = "none"
  /\ chart = <<>>
  /\ files = {}
  /\ savefigCalls = <<>>
  /\ showCalls = 0
  /\ exc = "none"
  /\ failedAt = "none"
  /\ result = "none"

NextRatio ==
  \/ Reduce
  \/ ComputeRatio
  \/ PrintLine

SpecRatio == InitRatio /\ [][NextRatio]_vars

(* ------------------------------ claims -------------------------------- *)

Finished == pc \in {"returned", "raised"}

\* the events after the loop: the loop contributes four events per dimension
EndTrace ==
  IF Len(trace) <= 4 * Len(dimensions) THEN <<>>
  ELSE SubSeq(trace, 4 * Len(dimensions) + 1, Len(trace))

Has(kind) == \E j \in 1..Len(EndTrace) : EndTrace[j][1] = kind

Before(a, b) ==
  LET t == EndTrace
  IN \A i, j \in 1..Len(t) : (t[i][1] = a /\ t[j][1] = b) => i < j

\* C1: no execution ends, by return or by exception, with the figure
\* created and not closed.
C1_FigureReleasedOnEveryExit ==
  (Finished /\ fig # "none") => fig = "closed"

\* C2: at the head of every pass ratios, min_dists and max_dists each hold
\* one entry per dimension already processed; after the loop they hold six;
\* ratios[i] is the ratio of the sample set drawn for dimensions[i].
C2_ResultAligned ==
  /\ Len(min_dists) = Len(max_dists)
  /\ Len(min_dists) = Len(drawn)
  /\ pc = "sample" =>
       /\ Len(ratios) = idx - 1
       /\ Len(min_dists) = idx - 1
  /\ pc \in {"reduce", "ratio", "print"} =>
       /\ Len(ratios) \in {idx - 1, idx}
       /\ Len(min_dists) \in {idx - 1, idx}
  /\ (pc \notin {"idle", "sample", "reduce", "ratio", "print", "raised"}
        \/ failedAt \in {"style", "subplots", "draw", "save", "show"}) =>
       /\ Len(ratios) = Len(dimensions)
       /\ Len(min_dists) = Len(dimensions)
       /\ Len(ratios) = 6
  /\ \A i \in 1..Len(ratios) :
       /\ drawn[i].dim = dimensions[i]
       /\ min_dists[i] = SeqMin(drawn[i].dists)
       /\ max_dists[i] = SeqMax(drawn[i].dists)
       /\ ratios[i].num * (min_dists[i] + Eps) = ratios[i].den * max_dists[i]

C2_Witness ==
  /\ pc = "style"
  /\ Len(ratios) = 6
  /\ ratios[1] # ratios[6]

\* C3: no savefig call and no file when save_path is None or empty; at the
\* return of a call with a non-empty save_path exactly one file has been
\* written, at exactly that path; nothing else is ever written.
C3_WriteIffSavePath ==
  /\ (pc # "idle" /\ save_path \in {None, ""}) =>
       (savefigCalls = <<>> /\ files = {})
  /\ savefigCalls \in {<<>>, <<save_path>>}
  /\ files \subseteq {save_path}
  /\ (pc = "returned" /\ save_path \notin {None, ""}) =>
       (files = {save_path} /\ savefigCalls = <<save_path>>)

C3_Witness ==
  /\ pc = "returned"
  /\ save_path = "plot.png"
  /\ files = {"plot.png"}

\* C4: plt.show() is never called when show is false, is called exactly
\* once in every execution that gets past the save step when show is true,
\* and the call without arguments runs with save_path = None, show = True.
C4_ShowIffFlag ==
  /\ (pc # "idle" /\ ~show) => showCalls = 0
  /\ showCalls <= 1
  /\ (show /\ (pc \in {"showing", "close", "return", "returned"}
               \/ failedAt = "show")) => showCalls = 1
  /\ noArgs => (save_path = None /\ show = TRUE)

C4_Witness ==
  /\ noArgs
  /\ pc = "returned"
  /\ showCalls = 1

\* C5: every ratio of a sample set with at least two distinct points
\* (max_dist > 0) is at least 1.
C5_RatioAtLeastOne ==
  \A i \in 1..Len(ratios) :
    max_dists[i] > 0 => ratios[i].num >= ratios[i].den

\* C6: when the minimum pairwise distance is 0 the division does not raise
\* and the ratio is max_dist / eps.
C6_EpsGuard ==
  /\ exc # "ZeroDivisionError"
  /\ failedAt # "ratio"
  /\ \A i \in 1..Len(ratios) :
       min_dists[i] = 0 =>
         /\ ratios[i].den # 0
         /\ ratios[i].num * Eps = ratios[i].den * max_dists[i]

C6_Witness ==
  /\ pc = "print"
  /\ min_dists[idx] = 0
  /\ max_dists[idx] > 0
  /\ Len(ratios) = idx

\* C7: a failure is never caught: the call ends at the raise, (fig, ax) is
\* returned only when no step failed, and a failure inside the loop leaves
\* the later dimensions unprocessed and nothing rendered, saved or shown.
C7_State ==
  /\ (exc # "none") <=> (pc = "raised")
  /\ (failedAt # "none") <=> (pc = "raised")
  /\ pc = "raised" => result = "none"
  /\ result # "none" =>
       /\ pc = "returned"
       /\ exc = "none"
       /\ Len(ratios) = Len(dimensions)
       /\ fig = "closed"
       /\ Truthy(save_path) => files = {save_path}
       /\ show => showCalls = 1
  /\ failedAt \in {"sample", "reduce", "ratio"} =>
       /\ Len(ratios) < idx
       /\ Len(drawn) <= idx
       /\ \A j \in 1..Len(trace) :
            \E i \in 1..idx : trace[j][2] = dimensions[i]
       /\ rcStyle = rcStyle0
       /\ fig = "none"
       /\ chart = <<>>
       /\ files = {}
       /\ savefigCalls = <<>>
       /\ showCalls = 0
  /\ failedAt = "save" => (files = {} /\ showCalls = 0 /\ fig = "open")

C7_FailuresPropagate == [](C7_State) /\ [][pc # "raised"]_vars

C7_Witness ==
  /\ pc = "raised"
  /\ failedAt = "reduce"
  /\ idx = 3
  /\ Len(ratios) = 2

\* C8: when the call has ended the process-wide style is the style the
\* process had when the call was made.
C8_StyleRestored ==
  Finished => rcStyle = rcStyle0

\* C9: the steps sample, reduce, ratio, print run for the dimensions in list
\* order, one pass completed before the next begins, and the figure is
\* created once, after the sixth console line.
C9_InListOrder ==
  /\ \A j \in 1..Len(trace) :
       IF j <= 4 * Len(dimensions)
       THEN trace[j] = <<StepKinds[((j - 1) % 4) + 1],
                         dimensions[((j - 1) \div 4) + 1]>>
       ELSE trace[j][1] \notin {"sample", "reduce", "ratio", "print"}
  /\ Cardinality({j \in 1..Len(trace) : trace[j][1] = "figure"}) <= 1
  /\ Has("figure") <=> fig # "none"
  /\ Has("style") => Len(trace) > 4 * Len(dimensions)
  /\ \A i \in 1..Len(stdout) :
       i <= Len(dimensions) =>
         (stdout[i].line = "Dimension" /\ stdout[i].dim = dimensions[i])
  /\ pc = "returned" =>
       Cardinality({i \in 1..Len(stdout) : stdout[i].line = "Dimension"})
         = Len(dimensions)

C9_Witness ==
  /\ pc = "draw"
  /\ fig = "open"
  /\ Len(stdout) = 6

\* C10: the file is written and then "Saved plot to" is printed before
\* plt.show() is entered, the figure is closed after both, and a failed
\* save leaves the chart unshown.
C10_EndOrder ==
  /\ Before("write", "saved_line")
  /\ Before("saved_line", "show")
  /\ Before("write", "show")
  /\ Before("show", "close")
  /\ Before("write", "close")
  /\ (Has("show") /\ Truthy(save_path)) =>
       (Has("write") /\ Has("saved_line") /\ files = {save_path})
  /\ Has("write") <=> files # {}
  /\ Has("saved_line") <=> files # {}
  /\ Has("saved_line") <=>
       (\E i \in 1..Len(stdout) : stdout[i].line = "Saved plot to")
  /\ Has("show") <=> showCalls > 0
  /\ Has("close") <=> fig = "closed"
  /\ fig = "closed" =>
       /\ Truthy(save_path) => files = {save_path}
       /\ show => showCalls = 1
  /\ failedAt = "save" => (showCalls = 0 /\ ~Has("saved_line"))

C10_Witness ==
  /\ pc = "showing"
  /\ save_path = "plot.png"
  /\ files = {"plot.png"}
  /\ fig = "open"

====
